---- MODULE Spec2Model ----
(***************************************************************************)
(* A model of the goetgevonden client library: the GoetGevondenClient      *)
(* facade over a requests session (client.py) and the response models      *)
(* (models.py).  Python values are tagged records, so that a string, an    *)
(* integer, None, a list and a dict stay distinguishable wherever the code *)
(* passes an arbitrary parsed JSON value through.                          *)
(***************************************************************************)
EXTENDS Integers, Sequences, FiniteSets, TLC

VARIABLES
    session,    \* the requests.Session held by the client: closed flag and headers
    sent,       \* number of HTTP requests recorded on the session so far
    scope,      \* position of the caller relative to a `with client:` block
    scopeExit,  \* how the last `with` block was left: error raised and error propagated
    last,       \* the last call of a public operation: arguments, requests issued, outcome
    sessions,   \* the requests.Session objects of a caller with several clients, by identity
    clients     \* the clients of that caller: the session each holds, and what was done to it

vars == <<session, sent, scope, scopeExit, last, sessions, clients>>

-----------------------------------------------------------------------------
(* Bounds of the model.                                                    *)

\* Calls are enabled while fewer than MaxRequests requests were recorded.
MaxRequests == 2

\* The integer counts a raw search response carries range over 0..MaxTotal.
MaxTotal == 2

\* The hit lists of a raw search response have at most MaxHits hits.
MaxHits == 2

-----------------------------------------------------------------------------
(* Python values.                                                          *)

PyNone == [t |-> "None"]
PyInt(n) == [t |-> "int", i |-> n]
PyStr(s) == [t |-> "str", s |-> s]
PyList(q) == [t |-> "list", l |-> q]
PyDict(f) == [t |-> "dict", d |-> f]

EmptyMap == [k \in {} |-> PyNone]
EmptyDict == PyDict(EmptyMap)
EmptyList == PyList(<<>>)

IsDict(v) == v.t = "dict"

\* key in d, for a dict d
HasKey(d, key) == key \in DOMAIN d.d

\* d.get(key, default), for a dict d
Get(d, key, default) == IF key \in DOMAIN d.d THEN d.d[key] ELSE default

\* a call's outcome: a returned value or a raised exception
Return(v) == [k |-> "return", v |-> v]
Raise(e) == [k |-> "raise", exc |-> e]

-----------------------------------------------------------------------------
(* Exceptions: the library's hierarchy, the transport's, and the builtins  *)
(* that escape when the code applies a dict method to a non-dict.          *)

Exc(type) == [t |-> "exc", type |-> type]

APIError(status_code, response) ==
    [t |-> "exc", type |-> "APIError", status_code |-> status_code, response |-> response]

NotFoundError ==
    [t |-> "exc", type |-> "NotFoundError", status_code |-> 404, response |-> PyNone]

\* the direct base classes of each exception class
Bases(type) ==
    CASE type = "NotFoundError" -> {"APIError"}
      [] type \in {"APIError", "ConnectionError", "TimeoutError", "ValidationError"} ->
             {"GoetGevondenError"}
      [] type = "requests.ConnectTimeout" -> {"requests.ConnectionError", "requests.Timeout"}
      [] type = "requests.ReadTimeout" -> {"requests.Timeout"}
      [] type \in {"requests.ConnectionError", "requests.Timeout",
                   "requests.TooManyRedirects"} -> {"requests.RequestException"}
      [] OTHER -> {}

\* isinstance(e, cls), through at most three levels of base classes
IsInstance(e, cls) ==
    LET b1 == Bases(e.type)
        b2 == UNION {Bases(x) : x \in b1}
        b3 == UNION {Bases(x) : x \in b2}
    IN  cls \in ({e.type} \cup b1 \cup b2 \cup b3)

-----------------------------------------------------------------------------
(* The transport: what session.request does with one request.  It either   *)
(* raises a requests exception or delivers a response (status, body).      *)

BEmpty == [k |-> "empty"]
BText(s) == [k |-> "text", s |-> s]      \* a body that is not valid JSON
BJson(v) == [k |-> "json", v |-> v]      \* a body that encodes the JSON value v

TransportErrors ==
    {"requests.ConnectionError", "requests.ConnectTimeout",
     "requests.ReadTimeout", "requests.TooManyRedirects"}

\* 304 stands for the statuses below 400 that are not 2xx and reach the caller
Statuses == {200, 204, 304, 404, 500}

Fails(type) == [k |-> "raise", exc |-> Exc(type)]
Response(status, body) == [k |-> "response", status |-> status, body |-> body]

Transports(bodies) ==
    {Fails(e) : e \in TransportErrors}
        \cup {Response(s, b) : s \in Statuses, b \in bodies}

\* response.ok: raise_for_status() would not raise
Ok(status) == ~(400 <= status /\ status < 600)

\* response.content is empty
NoContent(body) == body.k = "empty"

\* response.text: the body as a string; the text of a JSON body is its encoding
ResponseText(body) ==
    CASE body.k = "empty" -> PyStr("")
      [] body.k = "text" -> PyStr(body.s)
      [] body.k = "json" -> [t |-> "str", encodes |-> body.v]

\* response.json(): the parsed value, or ValueError
ResponseJson(body) ==
    IF body.k = "json" THEN Return(body.v) ELSE Raise(Exc("ValueError"))

-----------------------------------------------------------------------------
(* GoetGevondenClient._request and the models' from_dict constructors.     *)

\* the request handed to the session: urljoin(base_url + "/", endpoint.lstrip("/"))
\* keeps the endpoint path, so the URL is represented by the endpoint
HttpRequest(method, endpoint, params, json) ==
    [method |-> method, url |-> endpoint, params |-> params, json |-> json]

\* ErrorData without the fallback to the raw text
ErrorDataParsedOnly(body) ==
    LET parsed == ResponseJson(body)
    IN  IF parsed.k = "return" THEN parsed.v ELSE PyNone

\* the error payload of a non-ok response: the parsed JSON, else {"message": text}
ErrorData(body) ==
    LET parsed == ResponseJson(body)
    IN  IF parsed.k = "return" THEN parsed.v
        ELSE PyDict([key \in {"message"} |-> ResponseText(body)])

\* what _request makes of a delivered response
HandleResponse(status, body) ==
    IF status = 404 THEN Raise(NotFoundError)
    ELSE IF ~Ok(status) THEN Raise(APIError(status, ErrorData(body)))
    ELSE IF status = 204 \/ NoContent(body) THEN Return(PyNone)
    ELSE LET parsed == ResponseJson(body)
         IN  IF parsed.k = "return" THEN parsed ELSE Return(ResponseText(body))

\* what _request makes of an exception raised by session.request: the except
\* clauses are tried in order, anything else propagates unchanged
HandleTransportError(e) ==
    IF IsInstance(e, "requests.ConnectionError") THEN Raise(Exc("ConnectionError"))
    ELSE IF IsInstance(e, "requests.Timeout") THEN Raise(Exc("TimeoutError"))
    ELSE Raise(e)

\* Request sending the request a second time after a transport failure
RequestWithRetry(method, endpoint, params, json, t) ==
    [reqs |-> IF t.k = "raise"
              THEN <<HttpRequest(method, endpoint, params, json),
                     HttpRequest(method, endpoint, params, json)>>
              ELSE <<HttpRequest(method, endpoint, params, json)>>,
     out  |-> IF t.k = "raise" THEN HandleTransportError(t.exc)
              ELSE HandleResponse(t.status, t.body)]

\* _request(method, endpoint, params, json) when the transport answers t:
\* the requests issued on the session and the outcome
Request(method, endpoint, params, json, t) ==
    [reqs |-> <<HttpRequest(method, endpoint, params, json)>>,
     out  |-> IF t.k = "raise" THEN HandleTransportError(t.exc)
              ELSE HandleResponse(t.status, t.body)]

\* AboutInfo.from_dict(data): data.get on anything but a dict is an AttributeError
AboutInfo_from_dict(data) ==
    IF ~IsDict(data) THEN Raise(Exc("AttributeError"))
    ELSE Return([t |-> "AboutInfo",
                 app_name      |-> Get(data, "appName", PyStr("")),
                 version       |-> Get(data, "version", PyStr("")),
                 started_at    |-> Get(data, "startedAt", PyStr("")),
                 base_uri      |-> Get(data, "baseURI", PyStr("")),
                 huc_log_level |-> Get(data, "hucLogLevel", PyStr(""))])

ViewScopes == {"OVERLAP", "WITHIN"}

\* ViewScope(value): the enum member of that value, else ValueError
ViewScope(value) ==
    IF value.t = "str" /\ "s" \in DOMAIN value /\ value.s \in ViewScopes
    THEN Return([t |-> "ViewScope", value |-> value.s])
    ELSE Raise(Exc("ValueError"))

\* ViewAnnoConstraint.from_dict(data)
ViewAnnoConstraint_from_dict(data) ==
    IF ~IsDict(data) THEN Raise(Exc("AttributeError"))
    ELSE Return([t |-> "ViewAnnoConstraint",
                 path  |-> Get(data, "path", PyStr("")),
                 value |-> Get(data, "value", PyStr(""))])

\* ViewConfiguration.from_dict(data): the anno list is built first, then the scope.
\* The responses tried carry a list of constraints or no anno key; iterating None
\* or a number is a TypeError.
ViewConfiguration_from_dict(data) ==
    IF ~IsDict(data) THEN Raise(Exc("AttributeError"))
    ELSE LET anno == Get(data, "anno", EmptyList)
         IN  IF anno.t # "list" THEN Raise(Exc("TypeError"))
             ELSE LET cs == [i \in DOMAIN anno.l |-> ViewAnnoConstraint_from_dict(anno.l[i])]
                      bad == {i \in DOMAIN cs : cs[i].k = "raise"}
                      sc == ViewScope(Get(data, "scope", PyStr("OVERLAP")))
                  IN  IF bad # {} THEN cs[CHOOSE i \in bad : \A j \in bad : i <= j]
                      ELSE IF sc.k = "raise" THEN sc
                      ELSE Return([t |-> "ViewConfiguration",
                                   anno  |-> [i \in DOMAIN cs |-> cs[i].v],
                                   scope |-> sc.v])

\* the value-or-mapping resolution of a total field
ResolveTotal(total) ==
    IF IsDict(total) THEN Get(total, "value", PyInt(0)) ELSE total

\* FlatResult reading the aggregations under the other format's key
FlatResultAggregationsKey(data) ==
    Return([t |-> "SearchResult",
            total        |-> ResolveTotal(Get(data, "total", PyInt(0))),
            hits         |-> Get(data, "results", EmptyList),
            aggregations |-> Get(data, "aggregations", PyNone),
            raw_response |-> data])

\* SearchResult.from_dict, the Broccoli format: top-level total and results
FlatResult(data) ==
    Return([t |-> "SearchResult",
            total        |-> ResolveTotal(Get(data, "total", PyInt(0))),
            hits         |-> Get(data, "results", EmptyList),
            aggregations |-> Get(data, "aggs", PyNone),
            raw_response |-> data])

\* NestedResult reading the total at the top level instead of under hits
NestedResultTopLevelTotal(data) ==
    LET hits_data == Get(data, "hits", EmptyDict)
    IN  IF ~IsDict(hits_data) THEN Raise(Exc("AttributeError"))
        ELSE Return([t |-> "SearchResult",
                     total        |-> ResolveTotal(Get(data, "total", PyInt(0))),
                     hits         |-> Get(hits_data, "hits", EmptyList),
                     aggregations |-> Get(data, "aggregations", PyNone),
                     raw_response |-> data])

\* SearchResult.from_dict, the Elasticsearch format: hits.total and hits.hits
NestedResult(data) ==
    LET hits_data == Get(data, "hits", EmptyDict)
    IN  IF ~IsDict(hits_data) THEN Raise(Exc("AttributeError"))   \* hits_data.get
        ELSE Return([t |-> "SearchResult",
                     total        |-> ResolveTotal(Get(hits_data, "total", PyInt(0))),
                     hits         |-> Get(hits_data, "hits", EmptyList),
                     aggregations |-> Get(data, "aggregations", PyNone),
                     raw_response |-> data])

\* SearchResult.from_dict(data)
SearchResult_from_dict(data) ==
    IF data.t \in {"None", "int"} THEN Raise(Exc("TypeError"))    \* "results" in data
    ELSE IF ~IsDict(data) THEN Raise(Exc("AttributeError"))      \* data.get
    ELSE IF HasKey(data, "results") THEN FlatResult(data)
    ELSE NestedResult(data)

-----------------------------------------------------------------------------
(* Request models: IndexRange and IndexQuery serialization.                *)

IndexRange(name, from_value, to_value) ==
    [t |-> "IndexRange", name |-> name, from_value |-> from_value, to_value |-> to_value]

\* one optional entry of a dict under construction
Entry(key, value) == [k \in {key} |-> value]
EntryIfSet(key, value) == IF value # PyNone THEN Entry(key, value) ELSE EmptyMap

\* a serialization that writes every field, set or not
IndexRange_to_dict_AllFields(self) ==
    PyDict(Entry("name", self.name)
           @@ Entry("from", self.from_value)
           @@ Entry("to", self.to_value))

\* IndexRange.to_dict
IndexRange_to_dict(self) ==
    PyDict(Entry("name", self.name)
           @@ EntryIfSet("from", self.from_value)
           @@ EntryIfSet("to", self.to_value))

IndexQuery(text, terms, date, range, aggs) ==
    [t |-> "IndexQuery", text |-> text, terms |-> terms, date |-> date,
     range |-> range, aggs |-> aggs]

\* Python truthiness of the values a query field can hold
Falsy(value) == value \in {PyNone, PyStr(""), EmptyDict}
EntryIfTruthy(key, value) == IF Falsy(value) THEN EmptyMap ELSE Entry(key, value)

\* a serialization that tests the fields for truth instead of `is not None`
IndexQuery_to_dict_Truthy(self) ==
    PyDict(EntryIfTruthy("text", self.text)
           @@ EntryIfTruthy("terms", self.terms)
           @@ (IF self.date # PyNone THEN Entry("date", IndexRange_to_dict(self.date))
               ELSE EmptyMap)
           @@ (IF self.range # PyNone THEN Entry("range", IndexRange_to_dict(self.range))
               ELSE EmptyMap)
           @@ EntryIfTruthy("aggs", self.aggs))

\* IndexQuery.to_dict
IndexQuery_to_dict(self) ==
    PyDict(EntryIfSet("text", self.text)
           @@ EntryIfSet("terms", self.terms)
           @@ (IF self.date # PyNone THEN Entry("date", IndexRange_to_dict(self.date))
               ELSE EmptyMap)
           @@ (IF self.range # PyNone THEN Entry("range", IndexRange_to_dict(self.range))
               ELSE EmptyMap)
           @@ EntryIfSet("aggs", self.aggs))

-----------------------------------------------------------------------------
(* The public operations of GoetGevondenClient, each as the requests it    *)
(* issues and its outcome when the transport answers t.                    *)

NoRequest(out) == [reqs |-> <<>>, out |-> out]

\* the rest of a method after data = self._request(...): an exception raised by
\* _request propagates, else the method ends as its return expression does
Then(r, rest) ==
    IF r.out.k = "raise" THEN r ELSE [reqs |-> r.reqs, out |-> rest]

DoGetAbout(t) ==
    LET r == Request("GET", "/about", PyNone, PyNone, t)
    IN  Then(r, AboutInfo_from_dict(r.out.v))

\* get_home_page calls session.get itself: no exception is translated and the
\* status is not looked at
DoGetHomePage(t) ==
    [reqs |-> <<HttpRequest("GET", "/", PyNone, PyNone)>>,
     out  |-> IF t.k = "raise" THEN Raise(t.exc) ELSE Return(ResponseText(t.body))]

DoListProjects(t) == Request("GET", "/projects", PyNone, PyNone, t)

DoGetProjectBodyTypes(project_id, t) ==
    Request("GET", "/projects/" \o project_id, PyNone, PyNone, t)

\* {key: ViewConfiguration.from_dict(value) for key, value in data.items()}
ViewsOf(data) ==
    IF ~IsDict(data) THEN Raise(Exc("AttributeError"))
    ELSE LET vs == [key \in DOMAIN data.d |-> ViewConfiguration_from_dict(data.d[key])]
             bad == {key \in DOMAIN vs : vs[key].k = "raise"}
         IN  IF bad # {} THEN vs[CHOOSE key \in bad : TRUE]
             ELSE Return(PyDict([key \in DOMAIN vs |-> vs[key].v]))

DoGetViews(project_id, t) ==
    LET r == Request("GET", "/projects/" \o project_id \o "/views", PyNone, PyNone, t)
    IN  Then(r, ViewsOf(r.out.v))

DoGetAnnotations(a, t) ==
    Request("GET", "/projects/" \o a.project_id \o "/" \o a.body_id,
            PyDict(Entry("relativeTo", a.relative_to)
                   @@ EntryIfSet("includeResults", a.include_results)
                   @@ EntryIfSet("views", a.views)
                   @@ EntryIfSet("overlapTypes", a.overlap_types)),
            PyNone, t)

\* ValidatePagination without the check of size
ValidateFromOnly(from_, size) ==
    IF from_ < 0 THEN Raise(Exc("ValidationError")) ELSE Return(PyNone)

\* the checks search makes before it builds anything
ValidatePagination(from_, size) ==
    IF from_ < 0 THEN Raise(Exc("ValidationError"))
    ELSE IF size < 0 THEN Raise(Exc("ValidationError"))
    ELSE Return(PyNone)

\* the defaults of search's keyword arguments
SearchDefaults ==
    [project_id |-> "republic", text |-> PyNone, terms |-> PyNone, date_range |-> PyNone,
     value_range |-> PyNone, aggregations |-> PyNone, index_name |-> PyNone,
     from_ |-> 0, size |-> 10, fragment_size |-> 100, sort_by |-> PyStr("_score"),
     sort_order |-> PyStr("DESC")]

\* params built with a truth test on the pagination values: 0 is left out
SearchParamsIfTruthy(a) ==
    PyDict((IF a.from_ # 0 THEN Entry("from", PyInt(a.from_)) ELSE EmptyMap)
           @@ (IF a.size # 0 THEN Entry("size", PyInt(a.size)) ELSE EmptyMap)
           @@ Entry("fragmentSize", PyInt(a.fragment_size))
           @@ Entry("sortBy", a.sort_by)
           @@ Entry("sortOrder", a.sort_order)
           @@ EntryIfSet("indexName", a.index_name))

\* one entry of params, left out when the argument has its default value
EntryIfNotDefault(key, value, default) ==
    IF value # default THEN Entry(key, value) ELSE EmptyMap

\* params built from the arguments that differ from their defaults only
SearchParamsNonDefault(a) ==
    PyDict(EntryIfNotDefault("from", PyInt(a.from_), PyInt(SearchDefaults.from_))
           @@ EntryIfNotDefault("size", PyInt(a.size), PyInt(SearchDefaults.size))
           @@ EntryIfNotDefault("fragmentSize", PyInt(a.fragment_size),
                                PyInt(SearchDefaults.fragment_size))
           @@ EntryIfNotDefault("sortBy", a.sort_by, SearchDefaults.sort_by)
           @@ EntryIfNotDefault("sortOrder", a.sort_order, SearchDefaults.sort_order)
           @@ EntryIfSet("indexName", a.index_name))

SearchParams(a) ==
    PyDict(Entry("from", PyInt(a.from_))
           @@ Entry("size", PyInt(a.size))
           @@ Entry("fragmentSize", PyInt(a.fragment_size))
           @@ Entry("sortBy", a.sort_by)
           @@ Entry("sortOrder", a.sort_order)
           @@ EntryIfSet("indexName", a.index_name))

DoSearch(a, t) ==
    LET valid == ValidatePagination(a.from_, a.size)
        query == IndexQuery(a.text, a.terms, a.date_range, a.value_range, a.aggregations)
        r == Request("POST", "/projects/" \o a.project_id \o "/search",
                     SearchParams(a), IndexQuery_to_dict(query), t)
    IN  IF valid.k = "raise" THEN NoRequest(valid)
        ELSE Then(r, SearchResult_from_dict(r.out.v))

DoSearchText(a, t) ==
    DoSearch([SearchDefaults EXCEPT !.project_id = a.project_id, !.text = a.query,
                                    !.from_ = a.from_, !.size = a.size], t)

DoSearchByDate(a, t) ==
    DoSearch([SearchDefaults EXCEPT
                  !.project_id = a.project_id, !.text = a.text,
                  !.date_range = IndexRange(a.date_field, a.start_date, a.end_date),
                  !.from_ = a.from_, !.size = a.size], t)

DoGetIndices(project_id, t) ==
    Request("GET", "/brinta/" \o project_id \o "/indices", PyNone, PyNone, t)

DoCreateIndex(a, t) ==
    Request("POST", "/brinta/" \o a.project_id \o "/" \o a.index_name, PyNone, PyNone, t)

\* the mapping passed on as it is, empty or not
ParamsAsBuilt(m) == PyDict(m)

\* params if params else None
ParamsOrNone(m) == IF DOMAIN m = {} THEN PyNone ELSE PyDict(m)

DoDeleteIndex(a, t) ==
    Request("DELETE", "/brinta/" \o a.project_id \o "/" \o a.index_name,
            ParamsOrNone(EntryIfSet("deleteKey", a.delete_key)), PyNone, t)

DoFillIndex(a, t) ==
    Request("POST", "/brinta/" \o a.project_id \o "/" \o a.index_name \o "/fill",
            ParamsOrNone(EntryIfSet("metaAnno", a.meta_anno)
                         @@ EntryIfSet("metaValues", a.meta_values)
                         @@ EntryIfSet("take", a.take)),
            PyNone, t)

\* close(): self._session.close()
DoClose(s) == [s EXCEPT !.closed = TRUE]

\* __enter__ returns the client and leaves the session as it is
DoEnter(s) == s

\* DoExit closing the session only when the block ended without an error
DoExitOnSuccessOnly(s, exc) ==
    [session |-> IF exc = PyNone THEN DoClose(s) ELSE s, ret |-> PyNone]

\* __exit__(exc_type, exc_val, exc_tb): closes, and returns None
DoExit(s, exc) == [session |-> DoClose(s), ret |-> PyNone]

-----------------------------------------------------------------------------
(* Construction.                                                           *)

\* requests.Session(): open, with none of the two headers the client sets
NewSession == [closed |-> FALSE, headers |-> [h \in {} |-> ""]]

\* __init__: session.headers.update({...}) on the session the client holds
Construct(s) ==
    [s EXCEPT !.headers = [h \in {"Accept", "Content-Type"} |-> "application/json"] @@ @]

-----------------------------------------------------------------------------
(* The inputs the calls are tried on: arguments, and what the server sends. *)

HtmlBody == BText("<html>not json</html>")
ErrorBody == BJson(PyDict(Entry("error", PyStr("Internal server error"))))

GenericBodies == {BEmpty, HtmlBody, ErrorBody}

AboutBodies ==
    {BEmpty, HtmlBody,
     BJson(PyDict(Entry("appName", PyStr("Broccoli")) @@ Entry("version", PyStr("0.40.2"))))}

ProjectsBodies == {BEmpty, HtmlBody, ErrorBody, BJson(PyList(<<PyStr("republic")>>))}

ViewBody(m) == BJson(PyDict(Entry("text", PyDict(m))))

ViewsBodies ==
    {BEmpty, HtmlBody, BJson(EmptyDict),
     ViewBody(Entry("scope", PyStr("OVERLAP"))),
     ViewBody(Entry("scope", PyStr("WITHIN"))
              @@ Entry("anno", PyList(<<PyDict(Entry("path", PyStr("body.type")))>>))),
     ViewBody(Entry("anno", EmptyList)),
     ViewBody(Entry("scope", PyStr("NEAR"))),
     ViewBody(Entry("scope", PyNone))}

Hit == PyDict(Entry("_id", PyStr("1")))

SearchBodies ==
    {BEmpty, HtmlBody,
     BJson(PyDict(Entry("total", PyDict(Entry("value", PyInt(100))))
                  @@ Entry("results", PyList(<<Hit>>))
                  @@ Entry("aggs", EmptyDict))),
     BJson(PyDict(Entry("hits", PyDict(Entry("total", PyInt(42))
                                       @@ Entry("hits", PyList(<<Hit>>))))))}

ProjectIds == {"republic"}

AnnotationArgs ==
    LET d == [body_id |-> "urn:body:1", project_id |-> "republic", include_results |-> PyNone,
              views |-> PyNone, overlap_types |-> PyNone, relative_to |-> PyStr("Origin")]
    IN  {d,
         [d EXCEPT !.include_results = PyStr("anno,text")],
         [d EXCEPT !.views = PyStr("text"), !.overlap_types = PyStr("Page")],
         [d EXCEPT !.relative_to = PyStr("Page")]}

DateRange == IndexRange(PyStr("date"), PyStr("1600"), PyNone)

SearchArgs ==
    {SearchDefaults,
     [SearchDefaults EXCEPT !.text = PyStr("Holland"), !.from_ = 20],
     [SearchDefaults EXCEPT !.from_ = 0, !.size = 0],
     [SearchDefaults EXCEPT !.date_range = DateRange, !.index_name = PyStr("resolutions")],
     [SearchDefaults EXCEPT !.fragment_size = 50, !.sort_by = PyStr("date"),
                            !.sort_order = PyStr("ASC")],
     [SearchDefaults EXCEPT !.text = PyStr(""), !.terms = EmptyDict,
                            !.value_range = IndexRange(PyStr("year"), PyNone, PyStr("1650")),
                            !.aggregations = PyDict(Entry("test", EmptyDict))],
     [SearchDefaults EXCEPT !.from_ = -1],
     [SearchDefaults EXCEPT !.size = -1],
     [SearchDefaults EXCEPT !.text = PyStr("Holland"), !.from_ = -1, !.size = -1]}

SearchTextArgs ==
    {[query |-> PyStr("Amsterdam"), project_id |-> "republic", from_ |-> f, size |-> z] :
        <<f, z>> \in {<<0, 10>>, <<20, 10>>, <<-1, 10>>, <<0, -1>>}}

SearchByDateArgs ==
    {[start_date |-> PyStr("1600"), end_date |-> PyStr("1650"), text |-> PyStr("oorlog"),
      date_field |-> PyStr("date"), project_id |-> "republic", from_ |-> f, size |-> z] :
        <<f, z>> \in {<<0, 10>>, <<-1, 10>>, <<0, -1>>}}

CreateIndexArgs == {[index_name |-> "idx", project_id |-> "republic"]}

DeleteIndexArgs ==
    {[index_name |-> "idx", project_id |-> "republic", delete_key |-> k] :
        k \in {PyNone, PyStr(""), PyStr("secret")}}

FillIndexArgs ==
    {[index_name |-> "idx", project_id |-> "republic", meta_anno |-> m[1],
      meta_values |-> m[2], take |-> m[3]] :
        m \in {<<PyNone, PyNone, PyNone>>, <<PyStr("tf:Resolution"), PyNone, PyNone>>,
               <<PyNone, PyStr("date"), PyInt(5)>>, <<PyNone, PyNone, PyInt(0)>>}}

\* what the body of a `with` block can end with: nothing, the error of its last
\* call, or an error of its own
BodyErrors ==
    {PyNone, Exc("RuntimeError")} \cup (IF last.out.k = "raise" THEN {last.out.exc} ELSE {})

Truthy(v) == v.t # "None"

-----------------------------------------------------------------------------
(* The state machine: one client over one session, and a caller that calls *)
(* the public operations in any order, inside or outside a `with` block.   *)

NoAnswer == [k |-> "none"]
NoCall ==
    [op |-> "none", args |-> PyNone, answer |-> NoAnswer, reqs |-> <<>>, out |-> Return(PyNone)]
NoExit == [raised |-> PyNone, propagated |-> PyNone]

\* a caller with one client keeps no sessions of its own and no further clients
NoSessions == [id \in {} |-> NewSession]
NoClients == [c \in {} |-> PyNone]

Init ==
    /\ session = Construct(NewSession)
    /\ sent = 0
    /\ scope = "none"
    /\ scopeExit = NoExit
    /\ sessions = NoSessions
    /\ clients = NoClients
    /\ last = NoCall

\* a call of a public operation ends: its requests were recorded on the session,
\* and answered by t if there was one
Call(op, args, t, r) ==
    /\ last' = [op |-> op, args |-> args, answer |-> IF r.reqs = <<>> THEN NoAnswer ELSE t,
                reqs |-> r.reqs, out |-> r.out]
    /\ sent' = sent + Len(r.reqs)
    /\ UNCHANGED <<session, scope, scopeExit, sessions, clients>>

get_about ==
    /\ sent < MaxRequests
    /\ \E t \in Transports(AboutBodies) : Call("get_about", PyNone, t, DoGetAbout(t))

get_home_page ==
    /\ sent < MaxRequests
    /\ \E t \in Transports(GenericBodies) : Call("get_home_page", PyNone, t, DoGetHomePage(t))

list_projects ==
    /\ sent < MaxRequests
    /\ \E t \in Transports(ProjectsBodies) : Call("list_projects", PyNone, t, DoListProjects(t))

get_project_body_types ==
    /\ sent < MaxRequests
    /\ \E p \in ProjectIds, t \in Transports(GenericBodies) :
           Call("get_project_body_types", PyStr(p), t, DoGetProjectBodyTypes(p, t))

get_views ==
    /\ sent < MaxRequests
    /\ \E p \in ProjectIds, t \in Transports(ViewsBodies) :
           Call("get_views", PyStr(p), t, DoGetViews(p, t))

get_annotations ==
    /\ sent < MaxRequests
    /\ \E a \in AnnotationArgs, t \in Transports(GenericBodies) :
           Call("get_annotations", a, t, DoGetAnnotations(a, t))

search ==
    /\ sent < MaxRequests
    /\ \E a \in SearchArgs, t \in Transports(SearchBodies) : Call("search", a, t, DoSearch(a, t))

search_text ==
    /\ sent < MaxRequests
    /\ \E a \in SearchTextArgs, t \in Transports(SearchBodies) :
           Call("search_text", a, t, DoSearchText(a, t))

search_by_date ==
    /\ sent < MaxRequests
    /\ \E a \in SearchByDateArgs, t \in Transports(SearchBodies) :
           Call("search_by_date", a, t, DoSearchByDate(a, t))

get_indices ==
    /\ sent < MaxRequests
    /\ \E p \in ProjectIds, t \in Transports(GenericBodies) :
           Call("get_indices", PyStr(p), t, DoGetIndices(p, t))

create_index ==
    /\ sent < MaxRequests
    /\ \E a \in CreateIndexArgs, t \in Transports(GenericBodies) :
           Call("create_index", a, t, DoCreateIndex(a, t))

delete_index ==
    /\ sent < MaxRequests
    /\ \E a \in DeleteIndexArgs, t \in Transports(GenericBodies) :
           Call("delete_index", a, t, DoDeleteIndex(a, t))

fill_index ==
    /\ sent < MaxRequests
    /\ \E a \in FillIndexArgs, t \in Transports(GenericBodies) :
           Call("fill_index", a, t, DoFillIndex(a, t))

\* close(), called by the caller at any time
close ==
    /\ session' = DoClose(session)
    /\ UNCHANGED <<sent, scope, scopeExit, last, sessions, clients>>

\* `with client:` is entered
enter ==
    /\ scope # "body"
    /\ session' = DoEnter(session)
    /\ scope' = "body"
    /\ scopeExit' = NoExit
    /\ UNCHANGED <<sent, last, sessions, clients>>

\* the `with` block is left, normally (exc is None) or by an error: __exit__
\* runs, and the error propagates unless __exit__ returned a true value
exit ==
    /\ scope = "body"
    /\ \E exc \in BodyErrors :
           LET r == DoExit(session, exc)
           IN  /\ session' = r.session
               /\ scopeExit' = [raised |-> exc,
                                propagated |-> IF Truthy(r.ret) THEN PyNone ELSE exc]
    /\ scope' = "left"
    /\ UNCHANGED <<sent, last, sessions, clients>>

Next ==
    \/ list_projects \/ get_about \/ get_home_page \/ get_project_body_types
    \/ get_views \/ get_annotations \/ search \/ search_text \/ search_by_date
    \/ get_indices \/ create_index \/ delete_index \/ fill_index
    \/ close \/ enter \/ exit

Spec == Init /\ [][Next]_vars

-----------------------------------------------------------------------------
(* SearchResult.from_dict on its own: every raw response of a bounded      *)
(* family is drawn as the argument, and the action applies the function.   *)

Pending == [k |-> "pending"]

\* the ways a key can be absent or carry one of the values vs
Optional(key, vs) == {EmptyMap} \cup {Entry(key, v) : v \in vs}

Counts == {PyInt(n) : n \in 0..MaxTotal}

\* a total field: a count, a mapping with or without a value, or something else
TotalValues ==
    Counts
        \cup {PyDict(Entry("value", c) @@ m) : c \in Counts, m \in Optional("relation", {PyStr("eq")})}
        \cup {EmptyDict, PyDict(Entry("value", PyStr("many"))), PyStr("12"), PyNone}

HitLists == {PyList([i \in 1..n |-> PyDict(Entry("_id", PyInt(i)))]) : n \in 0..MaxHits}

AggValues == {PyDict(Entry("test", EmptyDict))}

\* a hits field: the nested sub-object, or a bare list or null
HitsValues ==
    {PyDict(tot @@ hs) : tot \in Optional("total", TotalValues), hs \in Optional("hits", HitLists)}
        \cup {PyList(<<Hit>>), PyNone}

RawResponses ==
    {PyDict(res @@ tot @@ hs @@ ag @@ agg) :
        res \in Optional("results", HitLists),
        tot \in Optional("total", {PyInt(MaxTotal), PyDict(Entry("value", PyInt(1))), PyStr("12")}),
        hs \in Optional("hits", HitsValues),
        ag \in Optional("aggs", AggValues),
        agg \in Optional("aggregations", AggValues)}
    \cup {PyDict(res @@ tot @@ ag @@ agg) :
        res \in Optional("results", HitLists) \ {EmptyMap},
        tot \in Optional("total", TotalValues),
        ag \in Optional("aggs", AggValues),
        agg \in Optional("aggregations", AggValues)}

InitParse ==
    /\ session = Construct(NewSession)
    /\ sent = 0
    /\ scope = "none"
    /\ scopeExit = NoExit
    /\ sessions = NoSessions
    /\ clients = NoClients
    /\ \E data \in RawResponses :
           last = [op |-> "SearchResult.from_dict", args |-> data, answer |-> NoAnswer,
                   reqs |-> <<>>, out |-> Pending]

from_dict ==
    /\ last.op = "SearchResult.from_dict"
    /\ last.out = Pending
    /\ last' = [last EXCEPT !.out = SearchResult_from_dict(last.args)]
    /\ UNCHANGED <<session, sent, scope, scopeExit, sessions, clients>>

NextParse == from_dict

SpecParse == InitParse /\ [][NextParse]_vars

-----------------------------------------------------------------------------
(* IndexRange.to_dict and IndexQuery.to_dict on their own: every request   *)
(* model of a bounded family is drawn as self, and the action applies the  *)
(* method; search is the operation that puts the serialization on the wire.*)

\* a field of type str | None: unset, the empty string, or a value
OptionalStr(v) == {PyNone, PyStr(""), PyStr(v)}

IndexRanges ==
    {IndexRange(PyStr(n), f, to) :
        n \in {"date", "year"}, f \in OptionalStr("1600"), to \in OptionalStr("1650")}

\* the ranges a query is drawn with
QueryRanges ==
    {PyNone} \cup {IndexRange(PyStr("date"), f, to) :
                      f \in {PyNone, PyStr("1600")}, to \in {PyNone, PyStr("1650")}}

TermsValues == {PyNone, EmptyDict, PyDict(Entry("type", PyStr("resolution")))}

AggsValues == {PyNone, EmptyDict, PyDict(Entry("test", EmptyDict))}

IndexQueries ==
    {IndexQuery(text, terms, date, range, aggs) :
        text \in OptionalStr("Holland"), terms \in TermsValues, date \in QueryRanges,
        range \in QueryRanges, aggs \in AggsValues}

InitSerialize ==
    /\ session = Construct(NewSession)
    /\ sent = 0
    /\ scope = "none"
    /\ scopeExit = NoExit
    /\ sessions = NoSessions
    /\ clients = NoClients
    /\ \/ \E self \in IndexRanges :
              last = [op |-> "IndexRange.to_dict", args |-> self, answer |-> NoAnswer,
                      reqs |-> <<>>, out |-> Pending]
       \/ \E self \in IndexQueries :
              last = [op |-> "IndexQuery.to_dict", args |-> self, answer |-> NoAnswer,
                      reqs |-> <<>>, out |-> Pending]

range_to_dict ==
    /\ last.op = "IndexRange.to_dict"
    /\ last.out = Pending
    /\ last' = [last EXCEPT !.out = Return(IndexRange_to_dict(last.args))]
    /\ UNCHANGED <<session, sent, scope, scopeExit, sessions, clients>>

query_to_dict ==
    /\ last.op = "IndexQuery.to_dict"
    /\ last.out = Pending
    /\ last' = [last EXCEPT !.out = Return(IndexQuery_to_dict(last.args))]
    /\ UNCHANGED <<session, sent, scope, scopeExit, sessions, clients>>

NextSerialize ==
    \/ range_to_dict
    \/ query_to_dict
    \/ search

SpecSerialize == InitSerialize /\ [][NextSerialize]_vars

-----------------------------------------------------------------------------
(* Several clients of one caller: the caller holds a session of its own    *)
(* and constructs each client either with it or without a session.         *)

ClientIds == {"a", "b"}

\* the session argument of __init__: None, or a reference to the caller's session
SessionRef(id) == [t |-> "Session", id |-> id]
SessionArgs == {PyNone, SessionRef("caller")}

\* headers the caller may have set on its session before handing it over
CallerHeaders ==
    {[h \in {} |-> ""],
     [h \in {"Accept", "Authorization"} |-> IF h = "Accept" THEN "text/html" ELSE "Bearer k"]}

\* a constructor that gives every client a session of its own, a copy of the
\* session passed in
ClientInitOwnCopy(heap, c, arg) ==
    LET base == IF arg # PyNone THEN heap[arg.id] ELSE NewSession
    IN  [sessions |-> (c :> Construct(base)) @@ heap, ref |-> c]

\* __init__: self._session = session or requests.Session(), then the headers
\* update on that object; a session the client creates is named after the client
ClientInit(heap, c, arg) ==
    LET id == IF arg # PyNone THEN arg.id ELSE c
        base == IF arg # PyNone THEN heap[id] ELSE NewSession
    IN  [sessions |-> (id :> Construct(base)) @@ heap, ref |-> id]

NotBuilt == [built |-> FALSE]
Built(c) == clients[c].built

\* the answers tried when the caller has several clients
SharedTransports == {Response(200, BEmpty), Fails("requests.ConnectionError")}

InitShared ==
    /\ session = Construct(NewSession)
    /\ sent = 0
    /\ scope = "none"
    /\ scopeExit = NoExit
    /\ last = NoCall
    /\ \E hs \in CallerHeaders : sessions = ("caller" :> [NewSession EXCEPT !.headers = hs])
    /\ clients = [c \in ClientIds |-> NotBuilt]

\* GoetGevondenClient(session=arg)
new_client ==
    \E c \in ClientIds, arg \in SessionArgs :
        /\ ~Built(c)
        /\ LET r == ClientInit(sessions, c, arg)
           IN  /\ sessions' = r.sessions
               /\ clients' = [clients EXCEPT ![c] =
                                 [built |-> TRUE, arg |-> arg, session |-> r.ref,
                                  scope |-> "none", released |-> FALSE]]
        /\ UNCHANGED <<session, sent, scope, scopeExit, last>>

\* c.close()
client_close ==
    \E c \in ClientIds :
        /\ Built(c)
        /\ sessions' = [sessions EXCEPT ![clients[c].session] = DoClose(@)]
        /\ clients' = [clients EXCEPT ![c].released = TRUE]
        /\ UNCHANGED <<session, sent, scope, scopeExit, last>>

\* `with c:` is entered
client_enter ==
    \E c \in ClientIds :
        /\ Built(c)
        /\ clients[c].scope # "body"
        /\ sessions' = [sessions EXCEPT ![clients[c].session] = DoEnter(@)]
        /\ clients' = [clients EXCEPT ![c].scope = "body"]
        /\ UNCHANGED <<session, sent, scope, scopeExit, last>>

\* the `with c:` block is left, normally or by an error
client_exit ==
    \E c \in ClientIds, exc \in {PyNone, Exc("RuntimeError")} :
        /\ Built(c)
        /\ clients[c].scope = "body"
        /\ sessions' = [sessions EXCEPT ![clients[c].session] = DoExit(@, exc).session]
        /\ clients' = [clients EXCEPT ![c].scope = "left", ![c].released = TRUE]
        /\ UNCHANGED <<session, sent, scope, scopeExit, last>>

\* the searches tried when the caller has several clients: those for the first
\* page of the default size
FirstPage(as) == {a \in as : a.from_ = SearchDefaults.from_ /\ a.size = SearchDefaults.size}

\* a call of a public operation on client c ends; closed is the state of c's
\* session when the call was made
CallOn(c, op, args, t, r) ==
    /\ last' = [client |-> c, closed |-> sessions[clients[c].session].closed,
                op |-> op, args |-> args, answer |-> IF r.reqs = <<>> THEN NoAnswer ELSE t,
                reqs |-> r.reqs, out |-> r.out]
    /\ sent' = sent + Len(r.reqs)
    /\ UNCHANGED <<session, scope, scopeExit, sessions, clients>>

\* c.<operation>(...), for every public operation
client_call ==
    \E c \in ClientIds, t \in SharedTransports :
        /\ Built(c)
        /\ sent < MaxRequests
        /\ \/ CallOn(c, "get_about", PyNone, t, DoGetAbout(t))
           \/ CallOn(c, "get_home_page", PyNone, t, DoGetHomePage(t))
           \/ CallOn(c, "list_projects", PyNone, t, DoListProjects(t))
           \/ \E p \in ProjectIds :
                  CallOn(c, "get_project_body_types", PyStr(p), t, DoGetProjectBodyTypes(p, t))
           \/ \E p \in ProjectIds : CallOn(c, "get_views", PyStr(p), t, DoGetViews(p, t))
           \/ \E a \in AnnotationArgs :
                  CallOn(c, "get_annotations", a, t, DoGetAnnotations(a, t))
           \/ \E a \in FirstPage(SearchArgs) : CallOn(c, "search", a, t, DoSearch(a, t))
           \/ \E a \in FirstPage(SearchTextArgs) :
                  CallOn(c, "search_text", a, t, DoSearchText(a, t))
           \/ \E a \in FirstPage(SearchByDateArgs) :
                  CallOn(c, "search_by_date", a, t, DoSearchByDate(a, t))
           \/ \E p \in ProjectIds : CallOn(c, "get_indices", PyStr(p), t, DoGetIndices(p, t))
           \/ \E a \in CreateIndexArgs : CallOn(c, "create_index", a, t, DoCreateIndex(a, t))
           \/ \E a \in DeleteIndexArgs : CallOn(c, "delete_index", a, t, DoDeleteIndex(a, t))
           \/ \E a \in FillIndexArgs : CallOn(c, "fill_index", a, t, DoFillIndex(a, t))

NextShared ==
    \/ new_client
    \/ client_close
    \/ client_enter
    \/ client_exit
    \/ client_call

SpecShared == InitShared /\ [][NextShared]_vars

-----------------------------------------------------------------------------
(* Properties of SearchResult.from_dict, checked under SpecParse.          *)

\* from_dict has been applied to the raw response last.args
Parsed == last.op = "SearchResult.from_dict" /\ last.out # Pending

\* the raw response last.args is of the flat shape: it has a results key
FlatShape == "results" \in DOMAIN last.args.d

\* what a total field f of the mapping m must resolve to, where the claims say it:
\* absent, a bare integer, or a mapping with a value
TotalAsClaimed(m, total) ==
    /\ "total" \notin DOMAIN m => total = PyInt(0)
    /\ ("total" \in DOMAIN m /\ m["total"].t = "int") => total = m["total"]
    /\ ("total" \in DOMAIN m /\ m["total"].t = "dict" /\ "value" \in DOMAIN m["total"].d)
           => total = m["total"].d["value"]

\* C5: a raw response with a results key is read by the flat path, whatever
\* else it holds: the total is total.value for a mapping, total itself for a
\* bare integer and 0 when absent; the hits are exactly the results list; the
\* aggregations are the top-level aggs, or None when there is none.
C5_FlatPath ==
    (Parsed /\ FlatShape) =>
        /\ last.out.k = "return"
        /\ TotalAsClaimed(last.args.d, last.out.v.total)
        /\ last.out.v.hits = last.args.d["results"]
        /\ last.out.v.aggregations =
               (IF "aggs" \in DOMAIN last.args.d THEN last.args.d["aggs"] ELSE PyNone)

\* C5 witness: a flat response that also has hits and aggregations keys, and a
\* total mapping, has been parsed into that total's value
C5_Witness ==
    /\ Parsed /\ FlatShape
    /\ {"hits", "aggregations", "aggs", "total"} \subseteq DOMAIN last.args.d
    /\ last.args.d["total"].t = "dict"
    /\ last.out.k = "return"
    /\ last.out.v.total = PyInt(1)
    /\ last.out.v.hits # EmptyList

\* the hits sub-object of the raw response last.args is a mapping, or absent
HitsObject ==
    IF "hits" \in DOMAIN last.args.d THEN last.args.d["hits"] ELSE EmptyDict

C7_TotalIsInteger ==
    (Parsed /\ last.out.k = "return") => last.out.v.total.t = "int"

-----------------------------------------------------------------------------
(* Properties of the public operations, checked under Spec.                *)

SearchOps == {"search", "search_text", "search_by_date"}

\* the operations that go through _request
RoutedOps ==
    {"get_about", "list_projects", "get_project_body_types", "get_views", "get_annotations",
     "search", "search_text", "search_by_date", "get_indices", "create_index",
     "delete_index", "fill_index"}

\* the last call sent a request and the server answered it with a response
Answered == last.answer.k = "response"

\* a step in which a public operation was called and changed what is recorded
CallStep == last' # last \/ sent' # sent

\* C1: a search call (search, search_text, search_by_date) with from_ < 0 or
\* size < 0 fails with ValidationError and issues no request: the number of
\* requests recorded on the session is the same before and after the call.
C1_InvalidPaginationSendsNothing ==
    [][(last'.op \in SearchOps /\ (last'.args.from_ < 0 \/ last'.args.size < 0))
          => /\ last'.out = Raise(Exc("ValidationError"))
             /\ last'.reqs = <<>>
             /\ sent' = sent]_vars

\* C1 witness: after a request was recorded, a search call with a valid offset
\* and a negative size has failed with ValidationError
C1_Witness ==
    /\ last.op = "search"
    /\ last.args.from_ >= 0 /\ last.args.size < 0
    /\ last.out = Raise(Exc("ValidationError"))
    /\ sent > 0

\* C2: whenever the server answers a public operation with status 404, the
\* call fails with NotFoundError, an APIError whose status_code is 404.
C2_NotFoundEverywhere ==
    (Answered /\ last.answer.status = 404)
        => /\ last.out.k = "raise"
           /\ last.out.exc.type = "NotFoundError"
           /\ IsInstance(last.out.exc, "APIError")
           /\ last.out.exc.status_code = 404

\* the last call failed with a plain APIError that carries the status of the
\* response and, as payload, the parsed JSON body or else {"message": raw text}
FailedWithAPIError ==
    /\ last.out.k = "raise"
    /\ last.out.exc.type = "APIError"
    /\ last.out.exc.status_code = last.answer.status
    /\ last.answer.body.k = "json" => last.out.exc.response = last.answer.body.v
    /\ last.answer.body.k = "text" =>
           last.out.exc.response = PyDict(Entry("message", PyStr(last.answer.body.s)))
    /\ last.answer.body.k = "empty" =>
           last.out.exc.response = PyDict(Entry("message", PyStr("")))

C4_EmptyResponseIsEmptyResult ==
    (Answered /\ (last.answer.status = 204
                  \/ (200 <= last.answer.status /\ last.answer.status < 300
                      /\ last.answer.body.k = "empty")))
        => /\ last.out.k = "return"
           /\ last.op \in RoutedOps => last.out.v = PyNone
           /\ (last.op = "get_home_page" /\ last.answer.body.k = "empty")
                  => last.out.v = PyStr("")

\* the scope a view mapping must get: its own when it is one of the two
\* enumerated values, OVERLAP otherwise
ScopeAsClaimed(view) ==
    IF "scope" \in DOMAIN view.d /\ view.d["scope"].t = "str"
       /\ view.d["scope"].s \in {"OVERLAP", "WITHIN"}
    THEN view.d["scope"].s
    ELSE "OVERLAP"

\* C8: for every mapping of view names to view mappings that the views
\* endpoint returns, get_views does not fail and every resulting
\* ViewConfiguration has the scope of its view mapping when that is OVERLAP
\* or WITHIN, and OVERLAP when the scope is absent or unrecognized.
C8_ScopeDefaultsToOverlap ==
    (last.op = "get_views" /\ Answered /\ last.answer.status = 200
        /\ last.answer.body.k = "json" /\ IsDict(last.answer.body.v))
        => /\ last.out.k = "return"
           /\ \A key \in DOMAIN last.answer.body.v.d :
                  last.out.v.d[key].scope.value = ScopeAsClaimed(last.answer.body.v.d[key])

C10_OneRequestPerCall ==
    [][/\ sent <= sent' /\ sent' <= sent + 1
       /\ CallStep => /\ Len(last'.reqs) = sent' - sent
                      /\ last'.out.k = "return" => sent' = sent + 1]_vars

\* C10 witness: a call whose transport timed out has failed after one request
C10_Witness ==
    /\ last.op \in RoutedOps
    /\ last.answer = Fails("requests.ReadTimeout")
    /\ last.out = Raise(Exc("TimeoutError"))
    /\ Len(last.reqs) = 1
    /\ sent = 1

-----------------------------------------------------------------------------
(* Properties of the transport failures, checked under Spec.               *)

\* the last call sent a request and session.request raised instead of answering
TransportFailed == last.answer.k = "raise"

\* the transport failed by exceeding the timeout, while connecting or reading
TimedOut == TransportFailed /\ IsInstance(last.answer.exc, "requests.Timeout")

\* C11: when session.request raises inside _request, a failure to reach the
\* host makes the call fail with the library's ConnectionError and every
\* failure by timeout (connecting or reading) makes it fail with the library's
\* TimeoutError; neither is reported as an APIError or NotFoundError.
C11_TransportFailureMapping ==
    (last.op \in RoutedOps /\ TransportFailed) =>
        /\ last.out.k = "raise"
        /\ ~IsInstance(last.out.exc, "APIError")
        /\ TimedOut => last.out.exc = Exc("TimeoutError")
        /\ (~TimedOut /\ IsInstance(last.answer.exc, "requests.ConnectionError"))
               => last.out.exc = Exc("ConnectionError")

-----------------------------------------------------------------------------
(* Properties of the request models, checked under SpecSerialize.          *)

\* a to_dict call has returned the mapping last.out.v
Serialized(op) == last.op = op /\ last.out # Pending /\ last.out.k = "return"

\* the keys of {from, to} whose field of the range r is set
RangeKeys(r) ==
    {"name"} \cup {k \in {"from"} : r.from_value # PyNone} \cup {k \in {"to"} : r.to_value # PyNone}

\* m is the selective serialization of the range r
RangeAsClaimed(r, m) ==
    /\ IsDict(m)
    /\ DOMAIN m.d = RangeKeys(r)
    /\ m.d["name"] = r.name
    /\ "from" \in DOMAIN m.d => m.d["from"] = r.from_value
    /\ "to" \in DOMAIN m.d => m.d["to"] = r.to_value
    /\ \A k \in DOMAIN m.d : m.d[k] # PyNone

\* C12: IndexRange.to_dict returns a mapping whose keys are name, plus from
\* exactly when from_value is set and to exactly when to_value is set, each
\* carrying the field's value; no key maps to null.
C12_RangeKeysAreTheSetFields ==
    Serialized("IndexRange.to_dict") => RangeAsClaimed(last.args, last.out.v)

\* C12 witness: a range with an empty-string lower bound and no upper bound has
\* been serialized to name and from only
C12_Witness ==
    /\ Serialized("IndexRange.to_dict")
    /\ last.args = IndexRange(PyStr("date"), PyStr(""), PyNone)
    /\ DOMAIN last.out.v.d = {"name", "from"}

\* the top-level keys whose field of the query q is set
QueryKeys(q) ==
    {k \in {"text"} : q.text # PyNone} \cup {k \in {"terms"} : q.terms # PyNone}
        \cup {k \in {"date"} : q.date # PyNone} \cup {k \in {"range"} : q.range # PyNone}
        \cup {k \in {"aggs"} : q.aggs # PyNone}

\* m is the selective serialization of the query q
QueryAsClaimed(q, m) ==
    /\ IsDict(m)
    /\ DOMAIN m.d = QueryKeys(q)
    /\ "text" \in DOMAIN m.d => m.d["text"] = q.text
    /\ "terms" \in DOMAIN m.d => m.d["terms"] = q.terms
    /\ "date" \in DOMAIN m.d => RangeAsClaimed(q.date, m.d["date"])
    /\ "range" \in DOMAIN m.d => RangeAsClaimed(q.range, m.d["range"])
    /\ "aggs" \in DOMAIN m.d => m.d["aggs"] = q.aggs
    /\ \A k \in DOMAIN m.d : m.d[k] # PyNone

\* the IndexQuery that search builds from its arguments
QueryOf(a) == IndexQuery(a.text, a.terms, a.date_range, a.value_range, a.aggregations)

\* C13: IndexQuery.to_dict returns a mapping whose top-level keys are exactly
\* those of text, terms, date, range, aggs whose field is set, none of them
\* null, with date and range carrying the selective IndexRange serialization;
\* a search call sends that mapping as its body, and so the empty mapping when
\* neither text, terms, ranges nor aggregations are given.
C13_QueryKeysAreTheSetFields ==
    /\ Serialized("IndexQuery.to_dict") => QueryAsClaimed(last.args, last.out.v)
    /\ (last.op = "search" /\ last.reqs # <<>>) =>
           /\ QueryAsClaimed(QueryOf(last.args), last.reqs[1].json)
           /\ QueryKeys(QueryOf(last.args)) = {} => last.reqs[1].json = EmptyDict

\* C13 witness: a query with empty text, empty terms and a date range open above
\* has been serialized to text, terms and date
C13_Witness ==
    /\ Serialized("IndexQuery.to_dict")
    /\ last.args = IndexQuery(PyStr(""), EmptyDict,
                              IndexRange(PyStr("date"), PyStr("1600"), PyNone), PyNone, PyNone)
    /\ DOMAIN last.out.v.d = {"text", "terms", "date"}
    /\ DOMAIN last.out.v.d["date"].d = {"name", "from"}

\* a search call with nothing to search for has sent the empty mapping as body
C13_EmptyBodySent ==
    /\ last.op = "search"
    /\ last.args = SearchDefaults
    /\ last.reqs # <<>>
    /\ last.reqs[1].json = EmptyDict

-----------------------------------------------------------------------------
(* Properties of the query parameters, checked under Spec.                 *)

\* the last call sent the request last.reqs[1]
Sent(op) == last.op = op /\ last.reqs # <<>>

\* the query parameters that carry the optional arguments given: each key of
\* keys names the argument whose value it transmits
Supplied(a, keys) == {k \in DOMAIN keys : a[keys[k]] # PyNone}

\* params is a mapping of exactly the keys ks, each with its argument's value
CarriesExactly(params, a, keys, ks) ==
    /\ IsDict(params)
    /\ DOMAIN params.d = ks
    /\ \A k \in ks : params.d[k] = a[keys[k]]

AnnotationKeys ==
    [k \in {"includeResults", "views", "overlapTypes"} |->
        CASE k = "includeResults" -> "include_results"
          [] k = "views" -> "views"
          [] k = "overlapTypes" -> "overlap_types"]

DeleteKeys == Entry("deleteKey", "delete_key")

FillKeys ==
    [k \in {"metaAnno", "metaValues", "take"} |->
        CASE k = "metaAnno" -> "meta_anno"
          [] k = "metaValues" -> "meta_values"
          [] k = "take" -> "take"]

\* the query of a brinta operation: no mapping at all when no optional argument
\* is given, else exactly the given ones
BrintaParamsAsClaimed(params, a, keys) ==
    IF Supplied(a, keys) = {} THEN params = PyNone
    ELSE CarriesExactly(params, a, keys, Supplied(a, keys))

\* C14: get_annotations, delete_index and fill_index transmit an optional
\* query parameter exactly when the caller supplied it, with the supplied
\* value; get_annotations always transmits relativeTo (Origin unless
\* overridden); delete_index and fill_index without optional arguments send
\* no query mapping at all.
C14_OptionalParamsWhenSupplied ==
    /\ Sent("get_annotations") =>
           CarriesExactly(last.reqs[1].params, last.args,
                          AnnotationKeys @@ Entry("relativeTo", "relative_to"),
                          Supplied(last.args, AnnotationKeys) \cup {"relativeTo"})
    /\ Sent("delete_index") => BrintaParamsAsClaimed(last.reqs[1].params, last.args, DeleteKeys)
    /\ Sent("fill_index") => BrintaParamsAsClaimed(last.reqs[1].params, last.args, FillKeys)

\* C14 witness: fill_index called with take = 0 alone has sent exactly take
C14_Witness ==
    /\ Sent("fill_index")
    /\ last.args.meta_anno = PyNone /\ last.args.meta_values = PyNone
    /\ last.args.take = PyInt(0)
    /\ last.reqs[1].params = PyDict(Entry("take", PyInt(0)))

\* delete_index called without a key has sent no query mapping
C14_NoMappingSent ==
    /\ Sent("delete_index")
    /\ last.args.delete_key = PyNone
    /\ last.reqs[1].params = PyNone

\* get_annotations called with defaults has sent relativeTo = Origin alone
C14_RelativeToOrigin ==
    /\ Sent("get_annotations")
    /\ last.reqs[1].params = PyDict(Entry("relativeTo", PyStr("Origin")))

-----------------------------------------------------------------------------
(* Properties of the request search sends, checked under Spec.             *)

\* the arguments search is called with by the last call of a search operation:
\* the convenience forms pass on their own and leave the rest at the defaults
SearchArgsOf(l) ==
    CASE l.op = "search" -> l.args
      [] l.op = "search_text" ->
            [SearchDefaults EXCEPT !.project_id = l.args.project_id, !.text = l.args.query,
                                   !.from_ = l.args.from_, !.size = l.args.size]
      [] l.op = "search_by_date" ->
            [SearchDefaults EXCEPT !.project_id = l.args.project_id, !.text = l.args.text,
                                   !.from_ = l.args.from_, !.size = l.args.size]

\* the query parameters that search has a default for
DefaultedKeys == {"from", "size", "fragmentSize", "sortBy", "sortOrder"}

\* the value of the argument that the query parameter k transmits
ArgumentFor(a, k) ==
    CASE k = "from" -> PyInt(a.from_)
      [] k = "size" -> PyInt(a.size)
      [] k = "fragmentSize" -> PyInt(a.fragment_size)
      [] k = "sortBy" -> a.sort_by
      [] k = "sortOrder" -> a.sort_order
      [] k = "indexName" -> a.index_name

\* C15: a search call with from_ >= 0 and size >= 0, 0 included, sends a
\* single request, a POST to /projects/{project}/search, whose query
\* parameters are from and size with the supplied values, fragmentSize,
\* sortBy, sortOrder (ASC or DESC), and indexName exactly when supplied.
C15_SearchRequest ==
    (last.op \in SearchOps /\ last.args.from_ >= 0 /\ last.args.size >= 0) =>
        LET a == SearchArgsOf(last)
            keys == DefaultedKeys \cup {k \in {"indexName"} : a.index_name # PyNone}
        IN  /\ Len(last.reqs) = 1
            /\ last.reqs[1].method = "POST"
            /\ last.reqs[1].url = "/projects/" \o a.project_id \o "/search"
            /\ IsDict(last.reqs[1].params)
            /\ DOMAIN last.reqs[1].params.d = keys
            /\ \A k \in keys : last.reqs[1].params.d[k] = ArgumentFor(a, k)
            /\ last.reqs[1].params.d["sortOrder"] \in {PyStr("ASC"), PyStr("DESC")}

\* C15 witness: search with from_ = 0 and size = 0 has sent from=0 and size=0
C15_Witness ==
    /\ Sent("search")
    /\ last.args.from_ = 0 /\ last.args.size = 0
    /\ last.reqs[1].params.d["from"] = PyInt(0)
    /\ last.reqs[1].params.d["size"] = PyInt(0)

\* a search call naming an index has sent indexName
C15_IndexNameSent ==
    /\ Sent("search")
    /\ last.args.index_name = PyStr("resolutions")
    /\ last.reqs[1].params.d["indexName"] = PyStr("resolutions")

\* C16 as stated: search transmits each of the defaulted arguments only when
\* its value differs from the default, so a call with all defaults sends none
\* of from, size, fragmentSize, sortBy, sortOrder.
C16_OnlyNonDefaultsSent ==
    Sent("search") =>
        \A k \in DefaultedKeys :
            k \in DOMAIN last.reqs[1].params.d
                <=> ArgumentFor(last.args, k) # ArgumentFor(SearchDefaults, k)

\* C16: every search call that passes validation transmits all of from, size,
\* fragmentSize, sortBy and sortOrder, at their default values too; a call with
\* all defaults sends from=0, size=10, fragmentSize=100, sortBy=_score and
\* sortOrder=DESC, and nothing else.
C16_DefaultsAreSent ==
    Sent("search") =>
        /\ \A k \in DefaultedKeys :
               ArgumentFor(last.args, k) = ArgumentFor(SearchDefaults, k) =>
                   /\ k \in DOMAIN last.reqs[1].params.d
                   /\ last.reqs[1].params.d[k] = ArgumentFor(SearchDefaults, k)
        /\ last.args = SearchDefaults =>
               last.reqs[1].params =
                   PyDict([k \in DefaultedKeys |-> ArgumentFor(SearchDefaults, k)])

\* C16 witness: search(from_=20) has sent size=10, the default, next to from=20
C16_Witness ==
    /\ Sent("search")
    /\ last.args.from_ = 20 /\ last.args.size = SearchDefaults.size
    /\ last.reqs[1].params.d["from"] = PyInt(20)
    /\ last.reqs[1].params.d["size"] = PyInt(10)

-----------------------------------------------------------------------------
(* Properties of clients that share a session, checked under SpecShared.   *)

\* the client c was constructed with the caller's session
OverCallerSession(c) == Built(c) /\ clients[c].arg = SessionRef("caller")

JsonHeaders == [h \in {"Accept", "Content-Type"} |-> "application/json"]

\* the last call was made on a client whose session had been closed
CalledWhenClosed == last.op # "none" /\ last.closed

\* C17: a client constructed with the caller's session holds that very
\* session and has overwritten its Accept and Content-Type headers; close()
\* or leaving the scope of any one such client closes the caller's session,
\* and with it the session of every other client built over it; an operation
\* called on a client whose session is closed still sends its request, and
\* no call changes a session or a client.
C17_SessionIsShared ==
    /\ \A c \in ClientIds :
           OverCallerSession(c) =>
               /\ clients[c].session = "caller"
               /\ \A h \in DOMAIN JsonHeaders : h \in DOMAIN sessions["caller"].headers
                                                  /\ sessions["caller"].headers[h] = JsonHeaders[h]
               /\ clients[c].released => sessions["caller"].closed
    /\ \A c, d \in ClientIds :
           (OverCallerSession(c) /\ OverCallerSession(d) /\ clients[c].released) =>
               sessions[clients[d].session].closed
    /\ CalledWhenClosed => Len(last.reqs) = 1

\* C17 witness: a and b were built over the caller's session, which had its own
\* Accept header; a was closed, b never was, and a call on b has sent its
\* request on the closed session
C17_Witness ==
    /\ OverCallerSession("a") /\ OverCallerSession("b")
    /\ clients["a"].released /\ ~clients["b"].released
    /\ sessions["caller"].closed
    /\ sessions["caller"].headers["Accept"] = "application/json"
    /\ "Authorization" \in DOMAIN sessions["caller"].headers
    /\ sessions["caller"].headers["Authorization"] = "Bearer k"
    /\ last.op = "list_projects" /\ last.client = "b" /\ last.closed
    /\ Len(last.reqs) = 1

====
